---- MODULE Spec2Model ----
(***************************************************************************)
(* SpaceX launch-records dashboard (spacex-dash-app.py).                   *)
(*                                                                         *)
(* The module-level code reads the CSV into the global DataFrame           *)
(* spacex_df and computes the integer payload bounds; the layout declares  *)
(* a dropdown (site-dropdown) and a range slider (slider-payload); two     *)
(* Dash callbacks, update_pie and update_scatter, recompute the figures.   *)
(*                                                                         *)
(* Payload masses are floats in the program.  They are modelled in fixed   *)
(* point: a mass m stands for m / Scale kilograms, so that int() has       *)
(* something to truncate.  Slider values are whole kilograms.              *)
(*                                                                         *)
(* A DataFrame is a sequence of rows; every row carries the index label    *)
(* read_csv gave it, which boolean indexing keeps.                         *)
(***************************************************************************)
EXTENDS Integers, Sequences, FiniteSets, TLC

\* ---------------------------------------------------------------- bounds
MaxRows  == 2      \* records in the CSV file
NumSites == 2      \* distinct launch sites occurring in the CSV file
MaxMass  == 2      \* largest payload mass, in fixed-point units
Scale    == 2      \* fixed-point units per kilogram

\* ------------------------------------------------------------ input sets
\* The concrete dropdown values, listed in Python's string order, which is
\* the order groupby('Launch Site') sorts its keys in.
SiteOrder == <<"CCAFS LC-40", "CCAFS SLC-40", "KSC LC-39A", "VAFB SLC-4E">>

SiteRank(s) == CHOOSE i \in 1..Len(SiteOrder) : SiteOrder[i] = s

\* Values of the dropdown's options list.
DropdownOptions == {"ALL"} \cup {SiteOrder[i] : i \in 1..Len(SiteOrder)}

\* Sites that occur in the modelled CSV files.
Sites == {SiteOrder[i] : i \in 1..NumSites}

\* What the site input of a callback can carry: an option, the None of a
\* cleared dropdown, or a string that is no option at all.
SiteInputs == {"ALL", "None", "LC-99"} \cup Sites

\* The slider runs over whole kilograms from 0 to at least the largest
\* payload mass of the file.
SliderMax == (MaxMass + Scale - 1) \div Scale

\* What the slider input of a callback can carry (low > high included).
SliderInputs == (0..SliderMax) \X (0..SliderMax)

CsvRow == [site : Sites, payload : 0..MaxMass, class : {0, 1}, booster : {"FT"}]

RECURSIVE SeqsUpTo(_, _)
SeqsUpTo(S, n) ==
    IF n = 0 THEN {<<>>}
    ELSE LET shorter == SeqsUpTo(S, n - 1)
         IN  shorter \cup {Append(q, x) : q \in {r \in shorter : Len(r) = n - 1}, x \in S}

CsvFiles == SeqsUpTo(CsvRow, MaxRows)

\* ------------------------------------------------------ pandas / builtins
\* pd.read_csv: the rows of the file, labelled 0, 1, 2, ... in file order.
read_csv(file) ==
    [i \in 1..Len(file) |->
        [index |-> i - 1, site |-> file[i].site, payload |-> file[i].payload,
         class |-> file[i].class, booster |-> file[i].booster]]

Payloads(frame) == {frame[i].payload : i \in 1..Len(frame)}

\* Series.max() / Series.min(): NaN on an empty column.
SeriesMax(frame) ==
    IF Len(frame) = 0 THEN [nan |-> TRUE, v |-> 0]
    ELSE [nan |-> FALSE, v |-> CHOOSE m \in Payloads(frame) : \A p \in Payloads(frame) : p <= m]

SeriesMin(frame) ==
    IF Len(frame) = 0 THEN [nan |-> TRUE, v |-> 0]
    ELSE [nan |-> FALSE, v |-> CHOOSE m \in Payloads(frame) : \A p \in Payloads(frame) : m <= p]

\* int(x) accepting NaN as zero instead of raising.
PyIntNanIsZero(x) ==
    IF x.nan THEN [raised |-> FALSE, v |-> 0]
    ELSE [raised |-> FALSE, v |-> IF x.v >= 0 THEN x.v \div Scale ELSE -((-x.v) \div Scale)]

\* int(x) on a float: truncation toward zero to whole kilograms; ValueError
\* on NaN.
PyInt(x) ==
    IF x.nan THEN [raised |-> TRUE, v |-> 0]
    ELSE [raised |-> FALSE, v |-> IF x.v >= 0 THEN x.v \div Scale ELSE -((-x.v) \div Scale)]

\* A whole number of kilograms as a float to compare a payload mass with.
Kg(n) == n * Scale

\* frame[column] of one row.
Col(row, column) == IF column = "Launch Site" THEN row.site ELSE row.class

\* Position of a key of the column in ascending order: string order for
\* 'Launch Site', numeric order for 'class'.
KeyRank(column, k) == IF column = "Launch Site" THEN SiteRank(k) ELSE k

\* groupby(column, sort=False).size().reset_index(): groups in first-seen
\* order.
GroupBySizeUnsorted(frame, column) ==
    LET keys     == {Col(frame[i], column) : i \in 1..Len(frame)}
        first(k) == CHOOSE i \in 1..Len(frame) :
                        /\ Col(frame[i], column) = k
                        /\ \A j \in 1..(i - 1) : Col(frame[j], column) # k
        sorted   == [j \in 1..Cardinality(keys) |->
                        CHOOSE k \in keys :
                            Cardinality({k2 \in keys : first(k2) < first(k)}) = j - 1]
    IN  [j \in 1..Cardinality(keys) |->
            [key  |-> sorted[j],
             size |-> Cardinality({i \in 1..Len(frame) : Col(frame[i], column) = sorted[j]})]]

\* groupby(column).size().reset_index(): one row per key value that occurs,
\* in ascending key order (sort=True is the default), with its row count.
GroupBySize(frame, column) ==
    LET keys   == {Col(frame[i], column) : i \in 1..Len(frame)}
        sorted == [j \in 1..Cardinality(keys) |->
                      CHOOSE k \in keys :
                          Cardinality({k2 \in keys :
                              KeyRank(column, k2) < KeyRank(column, k)}) = j - 1]
    IN  [j \in 1..Cardinality(keys) |->
            [key  |-> sorted[j],
             size |-> Cardinality({i \in 1..Len(frame) : Col(frame[i], column) = sorted[j]})]]

\* Boolean indexing, frame[mask]: the rows whose mask entry is true, in
\* order, with their index labels.
BoolIndex(frame, mask) ==
    LET keep == SelectSeq([i \in 1..Len(frame) |-> i], LAMBDA i : mask[i])
    IN  [j \in 1..Len(keep) |-> frame[keep[j]]]

\* The masks the callbacks build: column == value, and low <= column <= high.
MaskClass(frame, c) == [i \in 1..Len(frame) |-> frame[i].class = c]
MaskSite(frame, s)  == [i \in 1..Len(frame) |-> frame[i].site = s]
MaskRange(frame, low, high) ==
    [i \in 1..Len(frame) |-> frame[i].payload >= Kg(low) /\ frame[i].payload <= Kg(high)]

\* df['class'].map({1: 'Success', 0: 'Failure'})
OutcomeLabel(c) == IF c = 1 THEN "Success" ELSE "Failure"

\* ------------------------------------------------------------------ state
VARIABLES
    pc,              \* "start", "loaded", "ready" (serving) or "failed"
    csv,             \* content of spacex_launch_dash.csv
    err,             \* exception that ended the import, or "none"
    spacex_df,       \* the global DataFrame
    min_payload,     \* <<>> while the name is unbound, else <<kilograms>>
    max_payload,
    site_dropdown,   \* value of the dropdown
    slider_payload,  \* value of the range slider, <<low, high>>
    pie_fig,         \* figure of success-pie-chart
    scatter_fig      \* figure of success-payload-scatter-chart

vars == <<pc, csv, err, spacex_df, min_payload, max_payload, site_dropdown,
          slider_payload, pie_fig, scatter_fig>>

NoFig == [title |-> <<>>, data |-> <<>>]

\* -------------------------------------------------------------- callbacks
\* update_pie's df with the success filter left out of the ALL branch.
update_pie_dfAllOutcomes(entered_site) ==
    IF entered_site = "ALL"
    THEN LET g == GroupBySize(spacex_df, "Launch Site")
         IN  [j \in 1..Len(g) |-> [name |-> g[j].key, value |-> g[j].size]]
    ELSE LET g == GroupBySize(BoolIndex(spacex_df, MaskSite(spacex_df, entered_site)),
                              "class")
         IN  [j \in 1..Len(g) |-> [name |-> OutcomeLabel(g[j].key), value |-> g[j].size]]

\* update_pie's df with the success filter applied in the single-site
\* branch as well.
update_pie_dfSuccessOnly(entered_site) ==
    IF entered_site = "ALL"
    THEN LET g == GroupBySize(BoolIndex(spacex_df, MaskClass(spacex_df, 1)),
                              "Launch Site")
         IN  [j \in 1..Len(g) |-> [name |-> g[j].key, value |-> g[j].size]]
    ELSE LET g == GroupBySize(BoolIndex(BoolIndex(spacex_df, MaskClass(spacex_df, 1)),
                                        MaskSite(BoolIndex(spacex_df, MaskClass(spacex_df, 1)),
                                                 entered_site)),
                              "class")
         IN  [j \in 1..Len(g) |-> [name |-> OutcomeLabel(g[j].key), value |-> g[j].size]]

\* update_pie's df with one row per site of the frame in the ALL branch,
\* zero for a site without a success (a count of successes per site).
update_pie_dfZeroFilled(entered_site) ==
    IF entered_site = "ALL"
    THEN LET g == GroupBySize(spacex_df, "Launch Site")
         IN  [j \in 1..Len(g) |->
                 [name  |-> g[j].key,
                  value |-> Cardinality({i \in 1..Len(spacex_df) :
                                /\ spacex_df[i].site = g[j].key
                                /\ spacex_df[i].class = 1})]]
    ELSE LET g == GroupBySize(BoolIndex(spacex_df, MaskSite(spacex_df, entered_site)),
                              "class")
         IN  [j \in 1..Len(g) |-> [name |-> OutcomeLabel(g[j].key), value |-> g[j].size]]

\* The local df of update_pie, as the (names, values) rows px.pie receives.
update_pie_df(entered_site) ==
    IF entered_site = "ALL"
    THEN LET g == GroupBySize(BoolIndex(spacex_df, MaskClass(spacex_df, 1)),
                              "Launch Site")
         IN  [j \in 1..Len(g) |-> [name |-> g[j].key, value |-> g[j].size]]
    ELSE LET g == GroupBySize(BoolIndex(spacex_df, MaskSite(spacex_df, entered_site)),
                              "class")
         IN  [j \in 1..Len(g) |-> [name |-> OutcomeLabel(g[j].key), value |-> g[j].size]]

\* Callback update_pie(entered_site): the figure it returns.
update_pie(entered_site) ==
    [title |-> IF entered_site = "ALL"
               THEN <<"Successful Launches by Site (All Sites)">>
               ELSE <<"Success vs Failure - ", entered_site>>,
     data  |-> update_pie_df(entered_site)]

\* update_scatter's dff with the upper end of the range excluded.
update_scatter_dffOpenHigh(entered_site, selected_payload) ==
    LET low   == selected_payload[1]
        high  == selected_payload[2]
        inrng == BoolIndex(spacex_df,
                     [i \in 1..Len(spacex_df) |->
                         /\ spacex_df[i].payload >= Kg(low)
                         /\ spacex_df[i].payload < Kg(high)])
    IN  IF entered_site # "ALL"
        THEN BoolIndex(inrng, MaskSite(inrng, entered_site))
        ELSE inrng

\* The local dff of update_scatter, the rows px.scatter receives.
update_scatter_dff(entered_site, selected_payload) ==
    LET low   == selected_payload[1]
        high  == selected_payload[2]
        inrng == BoolIndex(spacex_df, MaskRange(spacex_df, low, high))
    IN  IF entered_site # "ALL"
        THEN BoolIndex(inrng, MaskSite(inrng, entered_site))
        ELSE inrng

\* Callback update_scatter(entered_site, selected_payload): the figure it
\* returns.
update_scatter(entered_site, selected_payload) ==
    [title |-> IF entered_site # "ALL"
               THEN <<"Payload vs Mission Outcome", entered_site>>
               ELSE <<"Payload vs Mission Outcome">>,
     data  |-> update_scatter_dff(entered_site, selected_payload)]

\* ------------------------------------------------------------- operations
Init ==
    /\ pc = "start"
    /\ csv \in CsvFiles
    /\ err = "none"
    /\ spacex_df = <<>>
    /\ min_payload = <<>>
    /\ max_payload = <<>>
    /\ site_dropdown = "None"
    /\ slider_payload = <<0, 0>>
    /\ pie_fig = NoFig
    /\ scatter_fig = NoFig

\* Module level: read the file, compute the bounds (max first), build the
\* layout with the controls' initial values.  int() raising ends the import.
load ==
    /\ pc = "start"
    /\ LET frame == read_csv(csv)
           hi    == PyInt(SeriesMax(frame))
           lo    == PyInt(SeriesMin(frame))
       IN  /\ spacex_df' = frame
           /\ IF hi.raised \/ lo.raised
              THEN /\ pc' = "failed"
                   /\ err' = "ValueError"
                   /\ UNCHANGED <<min_payload, max_payload, site_dropdown,
                                  slider_payload>>
              ELSE /\ pc' = "loaded"
                   /\ err' = "none"
                   /\ max_payload' = <<hi.v>>
                   /\ min_payload' = <<lo.v>>
                   /\ site_dropdown' = "ALL"
                   /\ slider_payload' = <<lo.v, hi.v>>
    /\ UNCHANGED <<csv, pie_fig, scatter_fig>>

\* The page opens: Dash calls both callbacks with the controls' initial
\* values.
initial_call ==
    /\ pc = "loaded"
    /\ pc' = "ready"
    /\ pie_fig' = update_pie(site_dropdown)
    /\ scatter_fig' = update_scatter(site_dropdown, slider_payload)
    /\ UNCHANGED <<csv, err, spacex_df, min_payload, max_payload,
                   site_dropdown, slider_payload>>

\* The dropdown takes the value v: both callbacks list it as an Input and
\* are called with it.
site_dropdown_change(v) ==
    /\ pc = "ready"
    /\ v # site_dropdown
    /\ site_dropdown' = v
    /\ pie_fig' = update_pie(v)
    /\ scatter_fig' = update_scatter(v, slider_payload)
    /\ UNCHANGED <<pc, csv, err, spacex_df, min_payload, max_payload,
                   slider_payload>>

\* The slider change with update_scatter narrowing the global frame itself
\* to the rows it keeps.
slider_payload_changeInPlace(v) ==
    /\ pc = "ready"
    /\ v # slider_payload
    /\ slider_payload' = v
    /\ scatter_fig' = update_scatter(site_dropdown, v)
    /\ spacex_df' = update_scatter(site_dropdown, v).data
    /\ UNCHANGED <<pc, csv, err, min_payload, max_payload,
                   site_dropdown, pie_fig>>

\* The slider change with the pie redrawn as well, from the rows inside the
\* payload range.
slider_payload_changePieToo(v) ==
    /\ pc = "ready"
    /\ v # slider_payload
    /\ slider_payload' = v
    /\ scatter_fig' = update_scatter(site_dropdown, v)
    /\ pie_fig' =
          LET inrng == BoolIndex(spacex_df, MaskRange(spacex_df, v[1], v[2]))
              g == IF site_dropdown = "ALL"
                   THEN GroupBySize(BoolIndex(inrng, MaskClass(inrng, 1)), "Launch Site")
                   ELSE GroupBySize(BoolIndex(inrng, MaskSite(inrng, site_dropdown)), "class")
          IN  [title |-> pie_fig.title,
               data  |-> [j \in 1..Len(g) |->
                            [name  |-> IF site_dropdown = "ALL" THEN g[j].key
                                       ELSE OutcomeLabel(g[j].key),
                             value |-> g[j].size]]]
    /\ UNCHANGED <<pc, csv, err, spacex_df, min_payload, max_payload,
                   site_dropdown>>

\* The slider takes the value v: only update_scatter lists it as an Input.
slider_payload_change(v) ==
    /\ pc = "ready"
    /\ v # slider_payload
    /\ slider_payload' = v
    /\ scatter_fig' = update_scatter(site_dropdown, v)
    /\ UNCHANGED <<pc, csv, err, spacex_df, min_payload, max_payload,
                   site_dropdown, pie_fig>>

Next ==
    \/ load
    \/ initial_call
    \/ \E v \in SiteInputs : site_dropdown_change(v)
    \/ \E v \in SliderInputs : slider_payload_change(v)

Spec == Init /\ [][Next]_vars

\* ------------------------------------------------------------- properties
Rows == 1..Len(spacex_df)

\* The selection is one the controls are meant to deliver.
ValidSite(s)   == s \in DropdownOptions
ValidRange(r)  == r[1] <= r[2]

\* Row i of the frame is one the scatter selection asks for.
Selected(i) ==
    /\ Kg(slider_payload[1]) <= spacex_df[i].payload
    /\ spacex_df[i].payload <= Kg(slider_payload[2])
    /\ (site_dropdown = "ALL" \/ spacex_df[i].site = site_dropdown)

RECURSIVE SumValues(_)
SumValues(data) == IF data = <<>> THEN 0 ELSE Head(data).value + SumValues(Tail(data))

Names(data) == {data[j].name : j \in 1..Len(data)}

Successes(s) == {i \in Rows : spacex_df[i].site = s /\ spacex_df[i].class = 1}

\* C1: for ALL or a listed site and any payload range, the scatter's rows
\* are exactly the selected rows of the frame (payload within the closed
\* range, site matching), each once and in frame order.
C1_ScatterIsSelectedSubsequence ==
    (pc = "ready" /\ ValidSite(site_dropdown)) =>
        LET out == scatter_fig.data
        IN  /\ \A j \in 1..Len(out) :
                   \E i \in Rows : out[j] = spacex_df[i] /\ Selected(i)
            /\ \A i \in Rows :
                   Selected(i) => \E j \in 1..Len(out) : out[j] = spacex_df[i]
            /\ \A j, k \in 1..Len(out) : j < k => out[j].index < out[k].index

\* C1 witness: a concrete site and a range that keeps some rows of the site
\* and drops a row of the same site above it, below it, or both kept at an
\* end of the range.
C1_Witness ==
    /\ pc = "ready"
    /\ site_dropdown \in Sites
    /\ Len(spacex_df) = MaxRows
    /\ Len(scatter_fig.data) = 1
    /\ \E i \in Rows : spacex_df[i].payload = Kg(slider_payload[2])
                       /\ spacex_df[i].site = site_dropdown
    /\ \E i \in Rows : spacex_df[i].site = site_dropdown /\ ~Selected(i)

\* C2: for a site that occurs in the frame, the pie's counts sum to the
\* number of rows of that site.
C2_SitePieSumsToSiteRows ==
    (pc = "ready" /\ \E i \in Rows : spacex_df[i].site = site_dropdown) =>
        SumValues(pie_fig.data) =
            Cardinality({i \in Rows : spacex_df[i].site = site_dropdown})

\* C2 witness: a site with a success and a failure is selected.
C2_Witness ==
    /\ pc = "ready"
    /\ site_dropdown \in Sites
    /\ Names(pie_fig.data) = {"Success", "Failure"}

\* C3: for ALL, the pie's counts sum to the number of successes in the frame
\* and no count exceeds its site's successes, so no failure is counted.
C3_AllPieSumsToSuccesses ==
    (pc = "ready" /\ site_dropdown = "ALL") =>
        /\ SumValues(pie_fig.data) =
               Cardinality({i \in Rows : spacex_df[i].class = 1})
        /\ \A j \in 1..Len(pie_fig.data) :
               pie_fig.data[j].value <= Cardinality(Successes(pie_fig.data[j].name))

\* C3 witness: ALL over a frame with a success and a failure.
C3_Witness ==
    /\ pc = "ready"
    /\ site_dropdown = "ALL"
    /\ \E i, k \in Rows : spacex_df[i].class = 1 /\ spacex_df[k].class = 0
    /\ SumValues(pie_fig.data) >= 1

\* C4: with ALL and the range [min_payload, max_payload] the loader
\* computed, the scatter holds every row of the frame.
C4_InitialRangeKeepsEveryRow ==
    ( /\ pc = "ready"
      /\ site_dropdown = "ALL"
      /\ slider_payload = <<min_payload[1], max_payload[1]>> ) =>
        scatter_fig.data = spacex_df

\* C5: whatever was selected before, both figures are the ones the
\* callbacks compute from the file's frame and the current selection, and
\* the frame is still the one read from the file.
C5_FiguresDependOnSelectionOnly ==
    pc = "ready" =>
        /\ spacex_df = read_csv(csv)
        /\ pie_fig = update_pie(site_dropdown)
        /\ scatter_fig = update_scatter(site_dropdown, slider_payload)

\* C5 witness: a selection reached through changes of both controls, with a
\* scatter that dropped rows on the way.
C5_Witness ==
    /\ pc = "ready"
    /\ site_dropdown \in Sites
    /\ slider_payload # <<min_payload[1], max_payload[1]>>
    /\ 0 < Len(scatter_fig.data)
    /\ Len(scatter_fig.data) < Len(spacex_df)

\* C6: an invalid selection (low > high, or a site that is no option,
\* None included) leaves the rows of both figures as they were.
C6_InvalidSelectionKeepsFigures ==
    [][ ( /\ pc = "ready"
          /\ ~(ValidSite(site_dropdown') /\ ValidRange(slider_payload')) ) =>
            (pie_fig'.data = pie_fig.data /\ scatter_fig'.data = scatter_fig.data) ]_vars

C8_AllPieOmitsSitesWithoutSuccess ==
    (pc = "ready" /\ site_dropdown = "ALL") =>
        LET data == pie_fig.data
        IN  /\ Names(data) = {s \in Sites : Successes(s) # {}}
            /\ Cardinality(Names(data)) = Len(data)
            /\ \A j \in 1..Len(data) :
                   /\ data[j].value >= 1
                   /\ data[j].value = Cardinality(Successes(data[j].name))

\* C8 witness: ALL over a frame where one site only failed and another
\* succeeded.
C8_Witness ==
    /\ pc = "ready"
    /\ site_dropdown = "ALL"
    /\ \E s \in Sites : /\ \E i \in Rows : spacex_df[i].site = s
                        /\ Successes(s) = {}
    /\ Len(pie_fig.data) >= 1

\* Position in the frame of the first row the pie groups under the name n.
FirstSeen(n) ==
    CHOOSE i \in Rows :
        LET grouped(k) == IF site_dropdown = "ALL"
                          THEN spacex_df[k].class = 1 /\ spacex_df[k].site = n
                          ELSE /\ spacex_df[k].site = site_dropdown
                               /\ OutcomeLabel(spacex_df[k].class) = n
        IN  grouped(i) /\ \A k \in 1..(i - 1) : ~grouped(k)

\* C9 as stated: in both modes the slices are in first-seen order of their
\* key in the frame.
C9_SlicesInFirstSeenOrder ==
    (pc = "ready" /\ ValidSite(site_dropdown)) =>
        \A j, k \in 1..Len(pie_fig.data) :
            j < k => FirstSeen(pie_fig.data[j].name) < FirstSeen(pie_fig.data[k].name)

\* C9 amended: in both modes the slices are in ascending order of their
\* key: site names in string order for ALL, Failure (0) before Success (1)
\* for a single site; neither first-seen order nor order of count.
C9_SlicesInKeyOrder ==
    (pc = "ready" /\ ValidSite(site_dropdown)) =>
        LET data == pie_fig.data
        IN  IF site_dropdown = "ALL"
            THEN \A j, k \in 1..Len(data) :
                     j < k => SiteRank(data[j].name) < SiteRank(data[k].name)
            ELSE \/ Len(data) <= 1
                 \/ (Len(data) = 2 /\ data[1].name = "Failure" /\ data[2].name = "Success")

\* C9 witness: two slices whose keys are first seen in the frame in the
\* opposite of their pie order.
C9_Witness ==
    /\ pc = "ready"
    /\ ValidSite(site_dropdown)
    /\ Len(pie_fig.data) = 2
    /\ FirstSeen(pie_fig.data[2].name) < FirstSeen(pie_fig.data[1].name)

\* C10: a change of the slider alone leaves the pie as it was, and the pie
\* of a listed selection counts every row of the selection, whatever the
\* payload range.
C10_SliderLeavesPie ==
    /\ [][ (pc = "ready" /\ slider_payload' # slider_payload) => pie_fig' = pie_fig ]_vars
    /\ [] ( (pc = "ready" /\ ValidSite(site_dropdown)) =>
              SumValues(pie_fig.data) =
                  Cardinality({i \in Rows :
                      IF site_dropdown = "ALL" THEN spacex_df[i].class = 1
                      ELSE spacex_df[i].site = site_dropdown}) )

\* C10 witness: the slider has moved to a range that drops every row while
\* the pie still shows counts.
C10_Witness ==
    /\ pc = "ready"
    /\ ValidSite(site_dropdown)
    /\ ValidRange(slider_payload)
    /\ slider_payload # <<min_payload[1], max_payload[1]>>
    /\ scatter_fig.data = <<>>
    /\ SumValues(pie_fig.data) >= 1

====
